---------------------------- MODULE Spec2Model ----------------------------
(***************************************************************************)
(* A model of sync_notes.py: the State Store (SyncState), the Change       *)
(* Tracker (BrainHandler._register_event / process_pending), the Full      *)
(* Scan Driver (scan_existing), the Session Converter                      *)
(* (convert_hash_folder) and the Text Extractor (_clean_text,              *)
(* _is_valid_sentence, _smart_extract).                                    *)
(*                                                                         *)
(* Text is a sequence of one-character strings, so that the regular        *)
(* expressions and str.replace of the source are computed character by     *)
(* character.                                                              *)
(***************************************************************************)
EXTENDS Integers, Sequences, FiniteSets, TLC

(***************************************************************************)
(* Characters and strings                                                  *)
(***************************************************************************)

\* One character that a TLA+ string cannot hold is a token of its own.
Backtick == "<backtick>"

\* Python's \s, restricted to the characters the documents of the model use.
Whitespace == {" ", "\n", "\t"}

UpperSeq == <<"A","B","C","D","E","F","G","H","I","J","K","L","M",
              "N","O","P","Q","R","S","T","U","V","W","X","Y","Z">>

LowerSeq == <<"a","b","c","d","e","f","g","h","i","j","k","l","m",
              "n","o","p","q","r","s","t","u","v","w","x","y","z">>

Letters == {UpperSeq[i] : i \in 1..26} \cup {LowerSeq[i] : i \in 1..26}

HexDigits == {"0","1","2","3","4","5","6","7","8","9",
              "a","b","c","d","e","f","A","B","C","D","E","F"}

\* re.IGNORECASE compares characters through their lower case.
Lower(c) ==
    IF \E i \in 1..26 : UpperSeq[i] = c
    THEN LowerSeq[CHOOSE i \in 1..26 : UpperSeq[i] = c]
    ELSE c

\* str.upper() of one character (str.title() upper-cases a word's first letter).
Upper(c) ==
    IF \E i \in 1..26 : LowerSeq[i] = c
    THEN UpperSeq[CHOOSE i \in 1..26 : LowerSeq[i] = c]
    ELSE c

MaxOf(S) == CHOOSE m \in S : \A k \in S : k <= m

MinOf(S) == CHOOSE m \in S : \A k \in S : m <= k

\* p occurs in s at position i.
MatchAt(s, p, i) ==
    /\ i >= 1
    /\ i + Len(p) - 1 <= Len(s)
    /\ \A k \in 1..Len(p) : s[i + k - 1] = p[k]

\* p occurs in s at position i, ignoring case.
MatchAtIgnoreCase(s, p, i) ==
    /\ i >= 1
    /\ i + Len(p) - 1 <= Len(s)
    /\ \A k \in 1..Len(p) : Lower(s[i + k - 1]) = Lower(p[k])

\* `p in s`
Contains(s, p) == \E i \in 1..(Len(s) + 1) : MatchAt(s, p, i)

\* str.startswith
StartsWith(s, p) == MatchAt(s, p, 1)

\* The smallest index >= from at which p occurs in s, or 0.
FindFrom(s, p, from) ==
    LET hits == {i \in from..(Len(s) - Len(p) + 1) : MatchAt(s, p, i)}
    IN  IF hits = {} THEN 0 ELSE MinOf(hits)

\* The smallest index >= from holding the character c, or 0.
FindChar(s, c, from) ==
    LET hits == {i \in from..Len(s) : s[i] = c}
    IN  IF hits = {} THEN 0 ELSE MinOf(hits)

\* str.count of one character
CountChar(s, c) == Cardinality({i \in 1..Len(s) : s[i] = c})

\* The last index of the run of whitespace that starts at i (i - 1 when s[i] is
\* no whitespace): what \s* consumes from position i.
WsRunEnd(s, i) ==
    CHOOSE j \in (i - 1)..Len(s) :
        /\ \A k \in i..j : s[k] \in Whitespace
        /\ (j = Len(s) \/ s[j + 1] \notin Whitespace)

\* str.strip()
Strip(s) ==
    LET first == WsRunEnd(s, 1) + 1
        last == CHOOSE e \in 0..Len(s) :
                    /\ (e = 0 \/ s[e] \notin Whitespace)
                    /\ \A k \in (e + 1)..Len(s) : s[k] \in Whitespace
    IN  SubSeq(s, first, last)

RECURSIVE ReplaceFrom(_, _, _, _)
\* s[i..] with every occurrence of the non-empty `old` replaced, scanning from i.
ReplaceFrom(s, old, new, i) ==
    LET m == FindFrom(s, old, i)
    IN  IF m = 0 THEN SubSeq(s, i, Len(s))
        ELSE SubSeq(s, i, m - 1) \o new \o ReplaceFrom(s, old, new, m + Len(old))

RECURSIVE Interleave(_, _, _)
Interleave(s, new, i) ==
    IF i > Len(s) THEN new ELSE new \o <<s[i]>> \o Interleave(s, new, i + 1)

\* str.replace(old, new): every non-overlapping occurrence, left to right; an
\* empty `old` matches between all characters.
Replace(s, old, new) ==
    IF old # <<>> THEN ReplaceFrom(s, old, new, 1)
    ELSE IF new = <<>> THEN s
    ELSE Interleave(s, new, 1)

RECURSIVE Join(_, _)
\* sep.join(parts)
Join(parts, sep) ==
    IF parts = <<>> THEN <<>>
    ELSE IF Len(parts) = 1 THEN parts[1]
    ELSE parts[1] \o sep \o Join(Tail(parts), sep)

(***************************************************************************)
(* Text Extractor                                                          *)
(***************************************************************************)

RECURSIVE StripBlockquoteFrom(_, _)
\* re.sub(r'^>\s*', '', text, flags=re.MULTILINE): a '>' at the start of a line
\* goes, with all the whitespace (line breaks included) that follows it.
StripBlockquoteFrom(s, i) ==
    LET hits == {m \in i..Len(s) : s[m] = ">" /\ (m = 1 \/ s[m - 1] = "\n")}
    IN  IF hits = {} THEN SubSeq(s, i, Len(s))
        ELSE SubSeq(s, i, MinOf(hits) - 1)
                 \o StripBlockquoteFrom(s, WsRunEnd(s, MinOf(hits) + 1) + 1)

\* The index of the closing ** of a bold run opened at i (the nearest one on the
\* same line: .*? is lazy and . matches no line break), or 0.
BoldClose(s, i) ==
    LET hits == {j \in (i + 2)..(Len(s) - 1) :
                    /\ s[j] = "*" /\ s[j + 1] = "*"
                    /\ \A k \in (i + 2)..(j - 1) : s[k] # "\n"}
    IN  IF hits = {} THEN 0 ELSE MinOf(hits)

RECURSIVE UnboldFrom(_, _)
\* re.sub(r'\*\*(.*?)\*\*', r'\1', text)
UnboldFrom(s, i) ==
    LET hits == {m \in i..Len(s) : MatchAt(s, <<"*", "*">>, m) /\ BoldClose(s, m) > 0}
    IN  IF hits = {} THEN SubSeq(s, i, Len(s))
        ELSE LET m == MinOf(hits)
             IN  SubSeq(s, i, m - 1) \o SubSeq(s, m + 2, BoldClose(s, m) - 1)
                     \o UnboldFrom(s, BoldClose(s, m) + 2)

\* The index of the ')' closing a link [text](target) opened by the '[' at i, or 0:
\* [^\]]+ runs to the first ']', which "(" must follow, and [^\)]+ to the first ')'.
LinkClose(s, i) ==
    LET j == FindChar(s, "]", i + 1)
        k == FindChar(s, ")", j + 2)
    IN  IF j > i + 1 /\ j + 1 <= Len(s) /\ s[j + 1] = "(" /\ k > j + 2
        THEN k ELSE 0

RECURSIVE UnlinkFrom(_, _)
\* re.sub(r'\[([^\]]+)\]\([^\)]+\)', r'\1', text)
UnlinkFrom(s, i) ==
    LET hits == {m \in i..Len(s) : s[m] = "[" /\ LinkClose(s, m) > 0}
    IN  IF hits = {} THEN SubSeq(s, i, Len(s))
        ELSE LET m == MinOf(hits)
             IN  SubSeq(s, i, m - 1) \o SubSeq(s, m + 1, FindChar(s, "]", m + 1) - 1)
                     \o UnlinkFrom(s, LinkClose(s, m) + 1)

RECURSIVE UncodeFrom(_, _)
\* re.sub of the inline-code pattern, a backtick, ([^backtick]+), a backtick, by \1
UncodeFrom(s, i) ==
    LET hits == {m \in i..Len(s) :
                    s[m] = Backtick /\ FindChar(s, Backtick, m + 1) > m + 1}
    IN  IF hits = {} THEN SubSeq(s, i, Len(s))
        ELSE LET m == MinOf(hits)
             IN  SubSeq(s, i, m - 1) \o SubSeq(s, m + 1, FindChar(s, Backtick, m + 1) - 1)
                     \o UncodeFrom(s, FindChar(s, Backtick, m + 1) + 1)

SummaryLabels ==
    { <<"S","u","m","m","a","r","y">>,
      <<"A","b","s","t","r","a","c","t">>,
      <<"O","v","e","r","v","i","e","w">> }

\* What [:\s-]* consumes from position i: the first index it leaves.
SkipLabelTail(s, i) ==
    CHOOSE j \in i..(Len(s) + 1) :
        /\ \A k \in i..(j - 1) : s[k] \in (Whitespace \cup {":", "-"})
        /\ (j = Len(s) + 1 \/ s[j] \notin (Whitespace \cup {":", "-"}))

\* re.sub(r'^(Summary|Abstract|Overview)[:\s-]*', '', text, flags=re.IGNORECASE):
\* without re.MULTILINE, at the start of the text only.
StripLabel(s) ==
    IF \E l \in SummaryLabels : MatchAtIgnoreCase(s, l, 1)
    THEN LET l == CHOOSE x \in SummaryLabels : MatchAtIgnoreCase(s, x, 1)
         IN  SubSeq(s, SkipLabelTail(s, Len(l) + 1), Len(s))
    ELSE s

clean_text(text) ==
    Strip(StripLabel(UncodeFrom(UnlinkFrom(UnboldFrom(
        StripBlockquoteFrom(text, 1), 1), 1), 1)))

MinSentenceLen == 15

is_valid_sentence(text0) ==
    LET text == Strip(text0)
    IN  /\ ~(Len(text) < MinSentenceLen)
        /\ ~StartsWith(text, <<Backtick, Backtick, Backtick>>)
        /\ ~StartsWith(text, <<"#">>)
        /\ ~StartsWith(text, <<"!", "[">>)
        /\ ~(CountChar(text, ";") > 3 \/ CountChar(text, "{") > 2)
        \* [\u4e00-\u9fff a-zA-Z]: the class holds the space too; the model's
        \* alphabet has no CJK character.
        /\ \E i \in 1..Len(text) : text[i] \in (Letters \cup {" "})

\* The index of the last character of the match of \n\s*\n that starts at i, or 0.
BlankLineEnd(s, i) ==
    IF s[i] # "\n" THEN 0
    ELSE LET nls == {k \in (i + 1)..WsRunEnd(s, i + 1) : s[k] = "\n"}
         IN  IF nls = {} THEN 0 ELSE MaxOf(nls)

RECURSIVE SplitParagraphsFrom(_, _, _)
\* re.split(r'\n\s*\n', content), scanning from i with the current piece from st.
SplitParagraphsFrom(s, st, i) ==
    LET hits == {m \in i..Len(s) : BlankLineEnd(s, m) > 0}
    IN  IF hits = {} THEN <<SubSeq(s, st, Len(s))>>
        ELSE LET m == MinOf(hits)
             IN  <<SubSeq(s, st, m - 1)>>
                     \o SplitParagraphsFrom(s, BlankLineEnd(s, m) + 1,
                                            BlankLineEnd(s, m) + 1)

SeeContentBelow ==
    <<"S","e","e"," ","c","o","n","t","e","n","t"," ","b","e","l","o","w",".">>

\* cleaned.replace('\n', ' ').strip()
Flatten(cleaned) == Strip([i \in 1..Len(cleaned) |->
                              IF cleaned[i] = "\n" THEN " " ELSE cleaned[i]])

NoExclude == <<"<None>">>

\* A variant of is_excluded that lets the overview through.
never_excluded(final_text, exclude_text) == FALSE

\* `if exclude_text and final_text == exclude_text: continue`: an empty
\* exclude_text (or None) excludes nothing.
is_excluded(final_text, exclude_text) ==
    exclude_text # NoExclude /\ exclude_text # <<>> /\ final_text = exclude_text

RECURSIVE FirstParagraph(_, _)
\* The inner loop of _smart_extract over one content's paragraphs: <<text>> for
\* the first paragraph returned, <<>> when the loop falls through.
FirstParagraph(paragraphs, exclude_text) ==
    IF paragraphs = <<>> THEN <<>>
    ELSE LET cleaned == clean_text(Head(paragraphs))
             final_text == Flatten(cleaned)
         IN  IF is_valid_sentence(cleaned) /\ ~is_excluded(final_text, exclude_text)
             THEN <<final_text>>
             ELSE FirstParagraph(Tail(paragraphs), exclude_text)

RECURSIVE smart_extract(_, _)
smart_extract(content_list, exclude_text) ==
    IF content_list = <<>> THEN SeeContentBelow
    ELSE LET content == Head(content_list)
             hit == IF content = <<>> THEN <<>>
                    ELSE FirstParagraph(SplitParagraphsFrom(content, 1, 1), exclude_text)
         IN  IF hit # <<>> THEN hit[1]
             ELSE smart_extract(Tail(content_list), exclude_text)


(***************************************************************************)
(* Session Converter: the text it computes                                 *)
(***************************************************************************)

\* NOTE_TEMPLATE, the text '# '
TemplateHead ==
    <<"#"," ">>

\* NOTE_TEMPLATE, the text '\n\n**Created:** '
TemplateAfterTitle ==
    <<"\n","\n","*","*","C","r","e","a","t","e","d",":","*","*"," ">>

\* NOTE_TEMPLATE, the text '\n**Last Updated:** '
TemplateAfterCreated ==
    <<"\n","*","*","L","a","s","t"," ","U","p","d","a","t","e","d",":","*",
      "*"," ">>

\* NOTE_TEMPLATE, the text '\n**Tags:** #Development #Research\n**Status:** \\u2705 Complete\n\n---\n\n## \\U0001f4cb Overview\n\n> **Summary:** '
TemplateAfterUpdated ==
    <<"\n","*","*","T","a","g","s",":","*","*"," ","#","D","e","v","e","l",
      "o","p","m","e","n","t"," ","#","R","e","s","e","a","r","c","h","\n",
      "*","*","S","t","a","t","u","s",":","*","*"," ","U+2705"," ","C","o",
      "m","p","l","e","t","e","\n","\n","-","-","-","\n","\n","#","#"," ",
      "U+1F4CB"," ","O","v","e","r","v","i","e","w","\n","\n",">"," ","*",
      "*","S","u","m","m","a","r","y",":","*","*"," ">>

\* NOTE_TEMPLATE, the text '\n\n### Abstract\n\n'
TemplateAfterOverview ==
    <<"\n","\n","#","#","#"," ","A","b","s","t","r","a","c","t","\n","\n">>

\* NOTE_TEMPLATE, the text '\n\n---\n\n## \\U0001f4dd Content\n\n'
TemplateAfterAbstract ==
    <<"\n","\n","-","-","-","\n","\n","#","#"," ","U+1F4DD"," ","C","o","n",
      "t","e","n","t","\n","\n">>

\* NOTE_TEMPLATE, the text '\n'
TemplateTail ==
    <<"\n">>

\* "See details in Content section."
SeeDetails ==
    <<"S","e","e"," ","d","e","t","a","i","l","s"," ","i","n"," ","C","o",
      "n","t","e","n","t"," ","s","e","c","t","i","o","n",".">>

\* f"file://{LOCAL_REPO_PATH}"
target_prefix ==
    <<"f","i","l","e",":","/","/","/","h","o","m","e","/","u","b","u","n",
      "t","u","/","m","i","n","g","/","m","i","n","g","-","n","f","a","p",
      "i","-","d","e","b","u","g","g","e","r">>

\* f"{GITHUB_REPO_BASE}/{GITHUB_BRANCH}/"
replacement_base ==
    <<"h","t","t","p","s",":","/","/","g","i","t","h","u","b",".","c","o",
      "m","/","b","m","w","-","e","c","e","-","n","t","u","s","t","/","m",
      "i","n","g","-","n","f","a","p","i","-","d","e","b","u","g","g","e",
      "r","/","b","l","o","b","/","o","a","i","-","d","e","b","u","g","g",
      "i","n","g","-","t","o","o","l","-","r","a","p","p","/">>

\* strftime("%Y-%m-%d") of the primary file's st_ctime and of datetime.now(): one
\* token each.
ctime_date == <<"<created %Y-%m-%d>">>

now_date == <<"<updated %Y-%m-%d>">>

\* The characters of file names, in code point order (sorted() compares by it).
NameChars ==
    <<"-", ".", "0","1","2","3","4","5","6","7","8","9">> \o UpperSeq
        \o <<"_">> \o LowerSeq

Ord(c) == CHOOSE i \in 1..Len(NameChars) : NameChars[i] = c

\* a < b for strings
LexLess(a, b) ==
    \E k \in 1..(Len(b)) :
        /\ k <= Len(a) + 1
        /\ \A j \in 1..(k - 1) : a[j] = b[j]
        /\ (k = Len(a) + 1 \/ Ord(a[k]) < Ord(b[k]))

RECURSIVE SortedSeq(_)
\* sorted(keys)
SortedSeq(S) ==
    IF S = {} THEN <<>>
    ELSE LET m == CHOOSE x \in S : \A y \in S \ {x} : LexLess(x, y)
         IN  <<m>> \o SortedSeq(S \ {m})

DotMd == <<".", "m", "d">>

\* re.match(r'^(.+?)\.md', f.name): group 1, the shortest non-empty text before
\* a ".md"; <<>> when the name does not match.
BaseName(name) ==
    LET hits == {k \in 1..(Len(name) - 3) : MatchAt(name, DotMd, k + 1)}
    IN  IF hits = {} THEN <<>> ELSE SubSeq(name, 1, MinOf(hits))

\* The keys of file_groups for a directory listing (a sequence of entries
\* [name, size, is_file, content], in iterdir() order; content is what
\* _read_file returns for the entry, "" when it cannot be read).
GroupKeys(listing) ==
    {BaseName(listing[i].name) :
        i \in {j \in 1..Len(listing) :
                  listing[j].is_file /\ BaseName(listing[j].name) # <<>>}}

\* best_files_map[base_name]: max(paths, key=st_size), the first of the largest.
best_file(listing, base_name) ==
    LET idx == {i \in 1..Len(listing) :
                   listing[i].is_file /\ BaseName(listing[i].name) = base_name}
        big == {i \in idx : \A j \in idx : listing[j].size <= listing[i].size}
    IN  listing[MinOf(big)]

KeyWalkthrough == <<"w","a","l","k","t","h","r","o","u","g","h">>

KeyImplementationPlan ==
    <<"i","m","p","l","e","m","e","n","t","a","t","i","o","n","_","p","l","a","n">>

KeyTask == <<"t","a","s","k">>

known_keys == {KeyWalkthrough, KeyImplementationPlan, KeyTask}

\* contents.get(key, "")
ContentOf(listing, key) ==
    IF key \in GroupKeys(listing) THEN best_file(listing, key).content ELSE <<>>

\* str.title(): a letter after a letter is lowered, any other letter is raised.
TitleCase(s) ==
    [i \in 1..Len(s) |->
        IF i > 1 /\ s[i - 1] \in Letters THEN Lower(s[i]) ELSE Upper(s[i])]

\* f"\n### {title_str}\n"
SectionHeading(title_str) == <<"\n", "#", "#", "#", " ">> \o title_str \o <<"\n">>

RECURSIVE OtherSections(_, _)
OtherSections(listing, keys) ==
    IF keys = <<>> THEN <<>>
    ELSE << SectionHeading(TitleCase(Replace(Head(keys), <<"_">>, <<" ">>))),
            ContentOf(listing, Head(keys)) >>
             \o OtherSections(listing, Tail(keys))

\* Step 4 of convert_hash_folder: the joined content buffer.
full_raw_content(listing) ==
    LET impl_content == ContentOf(listing, KeyImplementationPlan)
        task_content == ContentOf(listing, KeyTask)
        walkthrough_content == ContentOf(listing, KeyWalkthrough)
        other_keys == SortedSeq(GroupKeys(listing) \ known_keys)
        content_buffer ==
            (IF impl_content # <<>>
             THEN << SectionHeading(<<"I","m","p","l","e","m","e","n","t","a","t",
                                      "i","o","n"," ","P","l","a","n">>),
                     impl_content >>
             ELSE <<>>)
            \o (IF task_content # <<>>
                THEN << SectionHeading(<<"T","a","s","k"," ","L","i","s","t">>),
                        task_content >>
                ELSE <<>>)
            \o OtherSections(listing, other_keys)
            \o (IF walkthrough_content # <<>>
                THEN << SectionHeading(<<"W","a","l","k","t","h","r","o","u","g","h">>),
                        walkthrough_content >>
                ELSE <<>>)
    IN  Join(content_buffer, <<"\n">>)

\* re.search(r'^#\s+(.+)$', text, re.MULTILINE) at the '#' of index i: the index
\* where group 1 starts, or 0. \s+ is greedy and gives back what it must for
\* (.+) to hold one character that is no line break.
HeadingGroupStart(s, i) ==
    IF ~(s[i] = "#" /\ (i = 1 \/ s[i - 1] = "\n")) THEN 0
    ELSE LET ms == {m \in (i + 1)..WsRunEnd(s, i + 1) :
                       m + 1 <= Len(s) /\ s[m + 1] # "\n"}
         IN  IF ms = {} THEN 0 ELSE MaxOf(ms) + 1

\* The last index of the line that holds index i.
LineEnd(s, i) ==
    IF FindChar(s, "\n", i) = 0 THEN Len(s) ELSE FindChar(s, "\n", i) - 1

\* title_match: [found, whole (group 0), title (group 1, stripped)]
title_match(s) ==
    LET hits == {i \in 1..Len(s) : HeadingGroupStart(s, i) > 0}
    IN  IF hits = {} THEN [found |-> FALSE, whole |-> <<>>, title |-> <<>>]
        ELSE LET i == MinOf(hits)
                 g == HeadingGroupStart(s, i)
             IN  [found |-> TRUE,
                  whole |-> SubSeq(s, i, LineEnd(s, g)),
                  title |-> Strip(SubSeq(s, g, LineEnd(s, g)))]

\* hash_id[:8]
Prefix8(hash_id) == SubSeq(hash_id, 1, IF Len(hash_id) < 8 THEN Len(hash_id) ELSE 8)

\* re.match(r'^Note[\s-][0-9a-fA-F]+.*', title, re.IGNORECASE)
is_default_title(title) ==
    /\ MatchAtIgnoreCase(title, <<"N","o","t","e">>, 1)
    /\ Len(title) >= 6
    /\ title[5] \in (Whitespace \cup {"-"})
    /\ title[6] \in HexDigits

MinContentLen == 50

\* Path(src).name
ImgName(src) ==
    LET keep == {i \in 1..Len(src) : src[i] # "/"}
    IN  IF keep = {} THEN <<>>
        ELSE LET e == MaxOf(keep)
                 slashes == {i \in 1..e : src[i] = "/"}
             IN  SubSeq(src, IF slashes = {} THEN 1 ELSE MaxOf(slashes) + 1, e)

\* The match of r'!\[(.*?)\]\((.*?)\)' at i: [j, k] with "](" at j and ")" at k, both
\* on the line of i; [j |-> 0] when there is none.
ImageMatch(s, i) ==
    IF ~MatchAt(s, <<"!", "[">>, i) THEN [j |-> 0, k |-> 0]
    ELSE LET e == LineEnd(s, i)
             js == {j \in (i + 2)..(e - 1) : s[j] = "]" /\ s[j + 1] = "("}
             ok == {j \in js : \E k \in (j + 2)..e : s[k] = ")"}
         IN  IF ok = {} THEN [j |-> 0, k |-> 0]
             ELSE [j |-> MinOf(ok),
                   k |-> MinOf({k \in (MinOf(ok) + 2)..e : s[k] = ")"})]

\* An image source that _process_images tries to copy: not a web URL, and found in
\* the session folder (on_disk: the sources and names that exist there).
IsLocalImage(src, on_disk) ==
    /\ ~StartsWith(src, <<"h","t","t","p">>)
    /\ (src \in on_disk \/ ImgName(src) \in on_disk)

RECURSIVE process_images_from(_, _, _, _)
\* re.sub(img_pattern, replace_img, content); copy_ok: shutil.copy2 succeeds.
process_images_from(s, i, on_disk, copy_ok) ==
    LET hits == {h \in i..Len(s) : ImageMatch(s, h).j > 0}
    IN  IF hits = {} THEN SubSeq(s, i, Len(s))
        ELSE LET h == MinOf(hits)
                 m == ImageMatch(s, h)
                 alt == SubSeq(s, h + 2, m.j - 1)
                 src == SubSeq(s, m.j + 2, m.k - 1)
             IN  SubSeq(s, i, h - 1)
                     \o (IF IsLocalImage(src, on_disk) /\ copy_ok
                         THEN <<"!", "[">> \o alt
                                  \o <<"]", "(", ".", "/", "s", "r", "c", "/">>
                                  \o ImgName(src) \o <<")">>
                         ELSE SubSeq(s, h, m.k))
                     \o process_images_from(s, m.k + 1, on_disk, copy_ok)

process_images(content, on_disk, copy_ok) ==
    process_images_from(content, 1, on_disk, copy_ok)

\* The image sources of `content` that are copied: DEST_IMG_DIR.mkdir runs for each.
RECURSIVE HasLocalImageFrom(_, _, _)
HasLocalImageFrom(s, i, on_disk) ==
    LET hits == {h \in i..Len(s) : ImageMatch(s, h).j > 0}
    IN  IF hits = {} THEN FALSE
        ELSE LET m == ImageMatch(s, MinOf(hits))
             IN  IsLocalImage(SubSeq(s, m.j + 2, m.k - 1), on_disk)
                     \/ HasLocalImageFrom(s, m.k + 1, on_disk)

RECURSIVE sanitize_from(_, _, _)
sanitize_from(text, ignore_list, n) ==
    IF n > Len(ignore_list) THEN text
    ELSE sanitize_from(Replace(text, ignore_list[n], <<>>), ignore_list, n + 1)

sanitize_content(text, ignore_list) == sanitize_from(text, ignore_list, 1)

convert_github_links(text) ==
    IF Contains(text, target_prefix)
    THEN Replace(text, target_prefix, replacement_base)
    ELSE text

FilenameIllegal == {"\\", "/", "*", "?", ":", "\"", "<", ">", "|"}

RECURSIVE CollapseHyphensFrom(_, _)
\* re.sub(r'-+', '-', s), scanning from i: a run of hyphens keeps its first.
CollapseHyphensFrom(s, i) ==
    LET m == FindFrom(s, <<"-", "-">>, i)
    IN  IF m = 0 THEN SubSeq(s, i, Len(s))
        ELSE LET e == CHOOSE j \in m..Len(s) :
                          /\ \A k \in m..j : s[k] = "-"
                          /\ (j = Len(s) \/ s[j + 1] # "-")
             IN  SubSeq(s, i, m) \o CollapseHyphensFrom(s, e + 1)

\* filename = f"{safe_title}.md"
filename_of(title) ==
    LET hyphened == Replace(Replace(Replace(title, <<"_","-","_">>, <<"-">>),
                                    <<"_">>, <<"-">>), <<" ">>, <<"-">>)
        legal == SelectSeq(hyphened, LAMBDA c : c \notin FilenameIllegal)
    IN  CollapseHyphensFrom(legal, 1) \o DotMd

NOTE_TEMPLATE(title, created, updated, overview, abstract, content) ==
    TemplateHead \o title \o TemplateAfterTitle \o created
        \o TemplateAfterCreated \o updated \o TemplateAfterUpdated \o overview
        \o TemplateAfterOverview \o abstract \o TemplateAfterAbstract \o content
        \o TemplateTail

\* last_other_content: the content of the last of the sorted other keys, or "".
last_other_content(listing) ==
    LET other_keys == SortedSeq(GroupKeys(listing) \ known_keys)
    IN  IF other_keys # <<>> THEN ContentOf(listing, other_keys[Len(other_keys)])
        ELSE <<>>

\* primary_file = best_files_map.get("walkthrough") or best_files_map.get("implementation_plan")
has_primary(listing) ==
    KeyWalkthrough \in GroupKeys(listing) \/ KeyImplementationPlan \in GroupKeys(listing)

\* convert_hash_folder, sections 5 to 7 once the title and the content without its
\* title line are known: the filters, the processing of the content, the fallbacks
\* of overview and abstract, the file name and the note.
render_note(listing, ignore_list, on_disk, copy_ok, raw0, overview_text0, abstract_text0, title, raw, overview_text, processed_content) ==
    [ reject |-> IF is_default_title(title) THEN "default_title"
                 ELSE IF Len(Strip(raw)) < MinContentLen THEN "short"
                 ELSE "none",
      title |-> title,
      assembled |-> raw0,
      raw |-> raw,
      has_groups |-> GroupKeys(listing) # {},
      overview0 |-> overview_text0,
      abstract0 |-> abstract_text0,
      overview |-> overview_text,
      abstract |-> IF abstract_text0 = overview_text THEN SeeDetails ELSE abstract_text0,
      content |-> processed_content,
      has_primary |-> has_primary(listing),
      copies_image |-> HasLocalImageFrom(raw, 1, on_disk),
      filename |-> filename_of(title),
      final_note |->
          NOTE_TEMPLATE(title,
                        IF has_primary(listing) THEN ctime_date ELSE now_date,
                        now_date,
                        overview_text,
                        IF abstract_text0 = overview_text THEN SeeDetails
                        ELSE abstract_text0,
                        processed_content) ]

\* convert_hash_folder, section 5: the title, and the content without its title line.
extract_title(hash_id, listing, ignore_list, on_disk, copy_ok, raw0, overview_text0, abstract_text0, tm, title) ==
    render_note(listing, ignore_list, on_disk, copy_ok, raw0, overview_text0,
                abstract_text0, title,
                IF tm.found THEN Replace(raw0, tm.whole, <<>>) ELSE raw0,
                IF overview_text0 = SeeContentBelow THEN title ELSE overview_text0,
                convert_github_links(
                    sanitize_content(
                        process_images(
                            IF tm.found THEN Replace(raw0, tm.whole, <<>>) ELSE raw0,
                            on_disk, copy_ok),
                        ignore_list)))

\* The contents the abstract is taken from: [impl_content, task_content, last_other_content]
abstract_sources(listing) ==
    << ContentOf(listing, KeyImplementationPlan),
       ContentOf(listing, KeyTask),
       last_other_content(listing) >>

\* convert_hash_folder, sections 3 and 4 once the overview is known: the abstract,
\* which leaves the overview out, and the content buffer.
extract_abstract(hash_id, listing, ignore_list, on_disk, copy_ok, raw0, overview_text0, tm) ==
    extract_title(hash_id, listing, ignore_list, on_disk, copy_ok, raw0, overview_text0,
                  smart_extract(abstract_sources(listing), overview_text0),
                  tm,
                  IF tm.found THEN tm.title
                  ELSE <<"N","o","t","e","-">> \o Prefix8(hash_id))

\* What convert_hash_folder computes from the session folder: the text of the note
\* and what decides its path. `listing` is what iterdir yields and _read_file
\* reads, on_disk the images in the folder, copy_ok whether shutil.copy2 works.
convert_text(hash_id, listing, ignore_list, on_disk, copy_ok) ==
    extract_abstract(hash_id, listing, ignore_list, on_disk, copy_ok,
                     full_raw_content(listing),
                     smart_extract(<< ContentOf(listing, KeyWalkthrough),
                                      ContentOf(listing, KeyImplementationPlan),
                                      ContentOf(listing, KeyTask) >>,
                                   NoExclude),
                     title_match(full_raw_content(listing)))


(***************************************************************************)
(* The sessions, documents and ignore lists of the model                   *)
(***************************************************************************)

\* the session folder "1a2b3c4d5e6f"
HashA ==
    <<"1","a","2","b","3","c","4","d","5","e","6","f">>

\* the session folder "zebra42"
HashB ==
    <<"z","e","b","r","a","4","2">>

\* "walkthrough.md"
NameWalkthrough ==
    <<"w","a","l","k","t","h","r","o","u","g","h",".","m","d">>

\* "walkthrough.md.resolved"
NameWalkthroughResolved ==
    <<"w","a","l","k","t","h","r","o","u","g","h",".","m","d",".","r","e","s",
      "o","l","v","e","d">>

\* "implementation_plan.md"
NamePlan ==
    <<"i","m","p","l","e","m","e","n","t","a","t","i","o","n","_","p","l","a",
      "n",".","m","d">>

\* "task.md"
NameTask ==
    <<"t","a","s","k",".","m","d">>

\* "notes.md"
NameNotes ==
    <<"n","o","t","e","s",".","m","d">>

\* "img/a.png"
NameImage ==
    <<"i","m","g","/","a",".","p","n","g">>

\* A document:
\*   # Sync Notes Design\n
\*   \n
\*   The walkthrough explains how the sync daemon debounces events.\n
DocWalkthrough ==
    <<"#"," ","S","y","n","c"," ","N","o","t","e","s"," ","D","e","s","i","g",
      "n","\n","\n","T","h","e"," ","w","a","l","k","t","h","r","o","u","g",
      "h"," ","e","x","p","l","a","i","n","s"," ","h","o","w"," ","t","h","e",
      " ","s","y","n","c"," ","d","a","e","m","o","n"," ","d","e","b","o","u",
      "n","c","e","s"," ","e","v","e","n","t","s",".","\n">>

\* A document:
\*   The plan lists the modules that change and the order of work.\n
\*   \n
\*   - step one\n
\*   - step two\n
DocPlan ==
    <<"T","h","e"," ","p","l","a","n"," ","l","i","s","t","s"," ","t","h","e",
      " ","m","o","d","u","l","e","s"," ","t","h","a","t"," ","c","h","a","n",
      "g","e"," ","a","n","d"," ","t","h","e"," ","o","r","d","e","r"," ","o",
      "f"," ","w","o","r","k",".","\n","\n","-"," ","s","t","e","p"," ","o",
      "n","e","\n","-"," ","s","t","e","p"," ","t","w","o","\n">>

\* A document:
\*   Tasks are tracked with SECRET-TOKEN and aabb in plain sight.
DocTask ==
    <<"T","a","s","k","s"," ","a","r","e"," ","t","r","a","c","k","e","d"," ",
      "w","i","t","h"," ","S","E","C","R","E","T","-","T","O","K","E","N"," ",
      "a","n","d"," ","a","a","b","b"," ","i","n"," ","p","l","a","i","n"," ",
      "s","i","g","h","t",".">>

\* A document:
\*   # Dup Title Here\n
\*   \n
\*   > **Summary:** The plan lists the modules that change and the order of work.
DocDupWalkthrough ==
    <<"#"," ","D","u","p"," ","T","i","t","l","e"," ","H","e","r","e","\n",
      "\n",">"," ","*","*","S","u","m","m","a","r","y",":","*","*"," ","T",
      "h","e"," ","p","l","a","n"," ","l","i","s","t","s"," ","t","h","e"," ",
      "m","o","d","u","l","e","s"," ","t","h","a","t"," ","c","h","a","n","g",
      "e"," ","a","n","d"," ","t","h","e"," ","o","r","d","e","r"," ","o","f",
      " ","w","o","r","k",".">>

\* A document:
\*   # Note-1a2b3c4d\n
\*   \n
\*   The walkthrough explains how the sync daemon debounces events.
DocDefaultTitle ==
    <<"#"," ","N","o","t","e","-","1","a","2","b","3","c","4","d","\n","\n",
      "T","h","e"," ","w","a","l","k","t","h","r","o","u","g","h"," ","e","x",
      "p","l","a","i","n","s"," ","h","o","w"," ","t","h","e"," ","s","y","n",
      "c"," ","d","a","e","m","o","n"," ","d","e","b","o","u","n","c","e","s",
      " ","e","v","e","n","t","s",".">>

\* A document:
\*   # Tiny\n
\*   \n
\*   short text
DocShort ==
    <<"#"," ","T","i","n","y","\n","\n","s","h","o","r","t"," ","t","e","x",
      "t">>

\* A document:
\*   Tasks are tracked with SECRET-TOKEN and aabb in plain sight.\n
\*   \n
\*   The walkthrough explains how the sync daemon debounces events.
DocNoHeading ==
    <<"T","a","s","k","s"," ","a","r","e"," ","t","r","a","c","k","e","d"," ",
      "w","i","t","h"," ","S","E","C","R","E","T","-","T","O","K","E","N"," ",
      "a","n","d"," ","a","a","b","b"," ","i","n"," ","p","l","a","i","n"," ",
      "s","i","g","h","t",".","\n","\n","T","h","e"," ","w","a","l","k","t",
      "h","r","o","u","g","h"," ","e","x","p","l","a","i","n","s"," ","h","o",
      "w"," ","t","h","e"," ","s","y","n","c"," ","d","a","e","m","o","n"," ",
      "d","e","b","o","u","n","c","e","s"," ","e","v","e","n","t","s",".">>

\* A document:
\*   # Image Doc\n
\*   \n
\*   ![shot](img/a.png) and ![web](http://e.com/x.png)\n
\*   \n
\*   The walkthrough explains how the sync daemon debounces events.
DocImages ==
    <<"#"," ","I","m","a","g","e"," ","D","o","c","\n","\n","!","[","s","h",
      "o","t","]","(","i","m","g","/","a",".","p","n","g",")"," ","a","n","d",
      " ","!","[","w","e","b","]","(","h","t","t","p",":","/","/","e",".","c",
      "o","m","/","x",".","p","n","g",")","\n","\n","T","h","e"," ","w","a",
      "l","k","t","h","r","o","u","g","h"," ","e","x","p","l","a","i","n","s",
      " ","h","o","w"," ","t","h","e"," ","s","y","n","c"," ","d","a","e","m",
      "o","n"," ","d","e","b","o","u","n","c","e","s"," ","e","v","e","n","t",
      "s",".">>

\* A document:
\*   # See details in Content section.\n
\*   \n
\*   See details in Content section.\n
\*   \n
\*   - filler filler filler filler
DocSeeDetails ==
    <<"#"," ","S","e","e"," ","d","e","t","a","i","l","s"," ","i","n"," ","C",
      "o","n","t","e","n","t"," ","s","e","c","t","i","o","n",".","\n","\n",
      "S","e","e"," ","d","e","t","a","i","l","s"," ","i","n"," ","C","o","n",
      "t","e","n","t"," ","s","e","c","t","i","o","n",".","\n","\n","-"," ",
      "f","i","l","l","e","r"," ","f","i","l","l","e","r"," ","f","i","l","l",
      "e","r"," ","f","i","l","l","e","r">>

\* A document:
\*   # Draft\n
\*   \n
\*   small
DocSmall ==
    <<"#"," ","D","r","a","f","t","\n","\n","s","m","a","l","l">>

\* A document:
\*   The plan lists the modules that change and the order of work.
DocPlanBrief ==
    <<"T","h","e"," ","p","l","a","n"," ","l","i","s","t","s"," ","t","h",
      "e"," ","m","o","d","u","l","e","s"," ","t","h","a","t"," ","c","h",
      "a","n","g","e"," ","a","n","d"," ","t","h","e"," ","o","r","d","e",
      "r"," ","o","f"," ","w","o","r","k",".">>

\* A directory entry of a session folder: st_size is the length of the text.
Entry(name, content) ==
    [name |-> name, size |-> Len(content), is_file |-> TRUE, content |-> content]

ListingFull ==
    << Entry(NameWalkthrough, DocWalkthrough),
       Entry(NamePlan, DocPlan),
       Entry(NameTask, DocTask) >>

ListingDup ==
    << Entry(NameWalkthrough, DocDupWalkthrough),
       Entry(NamePlan, DocPlanBrief) >>

ListingDefaultTitle ==
    << Entry(NameWalkthrough, DocDefaultTitle) >>

ListingShort ==
    << Entry(NameWalkthrough, DocShort) >>

ListingNoHeading ==
    << Entry(NameTask, DocNoHeading) >>

ListingImages ==
    << Entry(NameWalkthrough, DocImages) >>

ListingSeeDetails ==
    << Entry(NameNotes, DocSeeDetails) >>

ListingResolved ==
    << Entry(NameWalkthrough, DocSmall),
       Entry(NameWalkthroughResolved, DocWalkthrough),
       Entry(NameTask, DocTask) >>

\* What iterdir() may list for a session folder.
Listings ==
    << ListingFull,
       ListingDup,
       ListingDefaultTitle,
       ListingShort,
       ListingNoHeading,
       ListingImages,
       ListingSeeDetails,
       ListingResolved >>

\* ignore_strings.json: []
IgnoreNone ==
    <<  >>

\* ignore_strings.json: ['SECRET-TOKEN']
IgnoreSecret ==
    << <<"S","E","C","R","E","T","-","T","O","K","E","N">> >>

\* ignore_strings.json: ['ab', 'sync daemon']
IgnoreOverlap ==
    << <<"a","b">>,
       <<"s","y","n","c"," ","d","a","e","m","o","n">> >>

\* The ignore lists IGNORE_FILE may hold.
IgnoreLists == << IgnoreNone, IgnoreSecret, IgnoreOverlap >>

Sessions == {HashA, HashB}

\* The image a document refers to: absent from the session folder, copied by
\* shutil.copy2, or present with copy2 failing.
CopyEnvs == {"absent", "copied", "copy_fails"}

\* convert_text on the inputs of the model: session h holding Listings[l], under
\* IgnoreLists[g], with the image as c tells. (@@ makes the table an explicit
\* function, computed once.)
PlanTable ==
    [h \in Sessions, l \in 1..Len(Listings), g \in 1..Len(IgnoreLists), c \in CopyEnvs |->
        convert_text(h, Listings[l], IgnoreLists[g],
                     IF c = "absent" THEN {} ELSE {NameImage}, c = "copied")] @@ <<>>

\* No conversion: the folder is missing.
NoPlan ==
    [ reject |-> "none", has_groups |-> FALSE, has_primary |-> FALSE,
      copies_image |-> FALSE, filename |-> <<>> ]


(***************************************************************************)
(* The program state                                                       *)
(***************************************************************************)

FILE_SETTLE_DELAY == 60

CHECK_INTERVAL == 29 * 60

\* How far the clock moves in one step of the model: half a settle delay, so that
\* events fall within and beyond the delay of each other, or one check interval.
TickSteps == {FILE_SETTLE_DELAY \div 2, CHECK_INTERVAL}

\* The clock when the program starts; the sessions were last written before it.
StartTime == FILE_SETTLE_DELAY

MaxTicks == 2

MaxRestarts == 1

\* How often, in one behaviour, the world around the daemon disturbs it: the owner
\* of a session writes to it, or the file system or git fails a call.
MaxDisturbances == 1

Threads == {"main", "bg"}

VARIABLES
    now,               \* time.time()
    ticks,             \* how often the clock has moved
    files,             \* per session, what its folder lists: an index of Listings, 0: no folder
    restarts,          \* how often the process was killed and started again
    disturbances,      \* how often a session was written to or a call has failed
    state,             \* SyncState.state
    state_file,        \* STATE_FILE on disk
    ignore_strings,    \* BrainHandler.ignore_strings: an index of IgnoreLists
    pending_hashes,    \* BrainHandler.pending_hashes
    last_change_time,  \* BrainHandler.last_change_time
    main,              \* the main thread: __main__ and scan_existing
    bg,                \* the background thread: process_pending
    conv,              \* per thread, its call of convert_hash_folder
    mtime,             \* per session, the largest st_mtime of the folder and its files
    notes,             \* DEST_DIR: file name -> the note written last
    commits,           \* git HEAD of TARGET_ROOT: file name -> the note committed last
    loaded,            \* what SyncState.load() read at the latest start
    durable,           \* the mapping written by the latest save() that completed
    durable_at_crash,  \* `durable` when the process was last killed
    last_event,        \* per session, when its latest qualifying event was registered
    burst,             \* per session, its current burst of events and its drains
    owed,              \* sessions with an event registered since their last conversion began
    retry              \* per session, the mtime of a scan whose write failed (0: none)

vars == << now, ticks, restarts, disturbances, files, state, state_file, ignore_strings,
           pending_hashes, last_change_time, main, bg, conv, mtime, notes, commits,
           loaded, durable, durable_at_crash, last_event, burst, owed, retry >>

\* A burst of events on a session, each within the settle delay of the one before:
\* whether it holds several events, how often process_pending has drained the
\* session since the burst began, and how long the session had been quiet then.
NoBurst == [several |-> FALSE, dispatches |-> 0, quiet |-> 0]

\* dict.get(key, 0)
Get(m, key) == IF key \in DOMAIN m THEN m[key] ELSE 0

\* m[key] = value
Put(m, key, value) == [x \in DOMAIN m \cup {key} |-> IF x = key THEN value ELSE m[x]]

\* m.pop(key, default), the mapping left
Pop(m, keys) == [x \in DOMAIN m \ keys |-> m[x]]

EmptyMap == [x \in {} |-> 0]

(***************************************************************************)
(* State Store                                                             *)
(***************************************************************************)

\* STATE_FILE: missing, holding the JSON of a mapping, or cut short (opened for
\* writing and not, or not wholly, written).
FileMissing == [kind |-> "missing", data |-> EmptyMap]

FileTruncated == [kind |-> "truncated", data |-> EmptyMap]

FileHolding(data) == [kind |-> "json", data |-> data]

\* SyncState.load: {} when the file is missing or json.load raises.
load(file) == IF file.kind = "json" THEN file.data ELSE EmptyMap

\* SyncState.save, `with open(STATE_FILE, 'w')`: the open truncates the file, or fails.
save_open(file, ok) == IF ok THEN FileTruncated ELSE file

\* SyncState.save, json.dump and the close: the mapping is written, or the write fails.
save_dump(file, data, ok) == IF ok THEN FileHolding(data) ELSE file

should_process(hash_id, t) == t > Get(state, hash_id)

(***************************************************************************)
(* Session Converter: one call                                             *)
(***************************************************************************)

Idle ==
    [ stage |-> "idle", hash_id |-> <<>>, timestamp |-> 0, origin |-> "none",
      max_mtime |-> 0, stored |-> 0, result |-> "none", ret |-> FALSE,
      listing |-> 0, copy |-> "absent" ]

\* A call convert_hash_folder(hash_id, timestamp) that has just been made.
\* max_mtime and stored note what the session's files and the State Store hold then.
Called(hash_id, timestamp, origin) ==
    [ Idle EXCEPT !.stage = "body", !.hash_id = hash_id, !.timestamp = timestamp,
                  !.origin = origin, !.max_mtime = mtime[hash_id],
                  !.stored = Get(state, hash_id) ]

InProgress(t) == conv[t].stage \in {"body", "dump"}

\* What the file system and git do to one call: which one step raises (none:
\* "none"), the image the note refers to, git, and the open of the state file.
Faults == {"none", "listdir", "stat_size", "mkdir_img", "stat_ctime", "write"}

ConvEnvs ==
    { e \in [ fault : Faults, copy : CopyEnvs, git : {"ok", "fails", "no_repo"},
              save_open : BOOLEAN ] :
        e.fault # "none" => e.git = "ok" /\ e.save_open }

\* In how many ways e departs from a file system and a git that work: a step that
\* raises, an image that is missing or not copied, git failing or the notes not
\* being a repository, the state file not opening.
Deviations(e, has_image) ==
    (IF e.fault # "none" THEN 1 ELSE 0)
    + (IF has_image /\ e.copy # "copied" THEN 1 ELSE 0)
    + (IF e.git # "ok" THEN 1 ELSE 0)
    + (IF ~e.save_open THEN 1 ELSE 0)

Raises == {"listdir_error", "stat_size_error", "mkdir_img_error", "stat_ctime_error"}

\* The path convert_hash_folder takes: how it ends.
\*   "missing"        the folder does not exist: return False
\*   a member of Raises: an exception leaves the function
\*   "default_title", "short": the content-quality filters: return False
\*   "write_failed"   the try block's except: return False
\*   "written"        return True
convert_result(exists, plan, e) ==
    IF ~exists THEN "missing"
    ELSE IF e.fault = "listdir" THEN "listdir_error"
    ELSE IF e.fault = "stat_size" /\ plan.has_groups THEN "stat_size_error"
    ELSE IF plan.reject # "none" THEN plan.reject
    ELSE IF e.fault = "mkdir_img" /\ plan.copies_image THEN "mkdir_img_error"
    ELSE IF e.fault = "stat_ctime" /\ plan.has_primary THEN "stat_ctime_error"
    ELSE IF e.fault = "write" THEN "write_failed"
    ELSE "written"

\* A variant of records_timestamp that marks a session processed only when its
\* note was written.
records_timestamp_when_written(result, timestamp) ==
    timestamp # 0 /\ result = "written"

\* A variant of records_timestamp that also marks a session processed when the
\* write of its note failed.
records_timestamp_on_write_failure(result, timestamp) ==
    timestamp # 0 /\ result \in {"default_title", "short", "written", "write_failed"}

\* The ends on which `if timestamp: self.state_manager.update(hash_id, timestamp)` runs.
records_timestamp(result, timestamp) ==
    timestamp # 0 /\ result \in {"default_title", "short", "written"}

\* The ends on which the note file is written.
writes_note(result) == result = "written"

\* _git_commit: the note is committed when git works and `git status` shows a change.
git_commits(e, filename, note) ==
    e.git = "ok" /\ (filename \notin DOMAIN commits \/ commits[filename] # note)

\* What convert_text tells of session hash_id holding `listing` (0: no folder).
plan_of(hash_id, listing, copy) ==
    IF listing = 0 THEN NoPlan ELSE PlanTable[hash_id, listing, ignore_strings, copy]

\* Whether the content of the session refers to the image of the fixtures.
refers_to_image(hash_id, listing) == plan_of(hash_id, listing, "copied").copies_image

\* The note convert_hash_folder writes: the text PlanTable holds for these inputs.
note_of(hash_id, listing, copy) ==
    [ hash_id |-> hash_id, listing |-> listing, ignore |-> ignore_strings, copy |-> copy ]

\* convert_hash_folder taking the path that ends as `result`, in environment e.
ConvertEnds(t, e, c, filename, note, result, updates) ==
    /\ notes' = IF writes_note(result) THEN Put(notes, filename, note) ELSE notes
    /\ commits' = IF writes_note(result) /\ git_commits(e, filename, note)
                  THEN Put(commits, filename, note) ELSE commits
    /\ state' = IF updates THEN Put(state, c.hash_id, c.timestamp) ELSE state
    /\ state_file' = IF updates THEN save_open(state_file, e.save_open) ELSE state_file
    /\ conv' = [conv EXCEPT ![t] =
                  [ c EXCEPT !.stage = IF result \in Raises THEN "raised"
                                       ELSE IF updates /\ e.save_open THEN "dump"
                                       ELSE "returned",
                             !.result = result,
                             !.ret = (result = "written"),
                             !.listing = files[c.hash_id],
                             !.copy = e.copy ]]
    \* process_pending catches nothing: an exception ends the thread.
    /\ bg' = IF t = "bg" /\ result \in Raises THEN [bg EXCEPT !.pc = "dead"] ELSE bg
    /\ retry' = [retry EXCEPT ![c.hash_id] =
                    IF result = "write_failed" /\ c.max_mtime > c.stored
                    THEN c.max_mtime
                    ELSE IF updates THEN 0 ELSE @]

\* convert_hash_folder in environment e, which the disturbances left must allow.
ConvertIn(t, e, c, plan, has_image, result) ==
    /\ (e.copy # "absent" => has_image)
    /\ disturbances + Deviations(e, has_image) <= MaxDisturbances
    /\ disturbances' = disturbances + Deviations(e, has_image)
    /\ ConvertEnds(t, e, c, plan.filename, note_of(c.hash_id, files[c.hash_id], e.copy),
                   result, records_timestamp(result, c.timestamp))

\* convert_hash_folder up to and including the open of SyncState.save.
ConvertPlan(t, e, c, plan, has_image) ==
    ConvertIn(t, e, c, plan, has_image, convert_result(files[c.hash_id] # 0, plan, e))

ConvertBody(t) ==
    /\ conv[t].stage = "body"
    /\ \E e \in ConvEnvs :
          ConvertPlan(t, e, conv[t],
                      plan_of(conv[t].hash_id, files[conv[t].hash_id], e.copy),
                      refers_to_image(conv[t].hash_id, files[conv[t].hash_id]))
    /\ UNCHANGED << now, ticks, restarts, files, ignore_strings,
                    pending_hashes, last_change_time, main, mtime, loaded, durable,
                    durable_at_crash, last_event, burst, owed >>

\* The rest of SyncState.save (json.dump), and the return.
ConvertSaveDump(t) ==
    /\ conv[t].stage = "dump"
    /\ \E ok \in BOOLEAN :
        /\ ok \/ disturbances < MaxDisturbances
        /\ disturbances' = IF ok THEN disturbances ELSE disturbances + 1
        /\ state_file' = save_dump(state_file, state, ok)
        /\ durable' = IF ok THEN state ELSE durable
    /\ conv' = [conv EXCEPT ![t].stage = "returned"]
    /\ UNCHANGED << now, ticks, restarts, files, state, ignore_strings,
                    pending_hashes, last_change_time, main, bg, mtime, notes, commits,
                    loaded, durable_at_crash, last_event, burst, owed, retry >>


(***************************************************************************)
(* Full Scan Driver: __main__ and scan_existing on the main thread         *)
(***************************************************************************)

\* scan_existing, one folder of the loop up to the call of convert_hash_folder.
\* A stat that raises is caught by the loop's except and the folder is passed over.
ScanVisit(h) ==
    /\ main.pc = "scan"
    /\ h \in main.todo
    /\ \E stat_ok \in BOOLEAN :
        /\ stat_ok \/ (files[h] # 0 /\ disturbances < MaxDisturbances)
        /\ disturbances' = IF stat_ok THEN disturbances ELSE disturbances + 1
        /\ IF files[h] # 0 /\ stat_ok /\ should_process(h, mtime[h])
           THEN /\ main' = [main EXCEPT !.pc = "call"]
                /\ conv' = [conv EXCEPT !["main"] = Called(h, mtime[h], "scan")]
                /\ owed' = owed \ {h}
           ELSE /\ main' = [main EXCEPT !.todo = @ \ {h}]
                /\ UNCHANGED << conv, owed >>
    /\ UNCHANGED << now, ticks, restarts, files, state, state_file,
                    ignore_strings, pending_hashes, last_change_time, bg, mtime, notes,
                    commits, loaded, durable, durable_at_crash, last_event, burst,
                    retry >>

\* scan_existing, the call has returned or raised (the except of the loop catches it).
ScanReturn ==
    /\ main.pc = "call"
    /\ conv["main"].stage \in {"returned", "raised"}
    /\ main' = [main EXCEPT !.pc = "scan", !.todo = @ \ {conv["main"].hash_id}]
    /\ conv' = [conv EXCEPT !["main"] = Idle]
    /\ UNCHANGED << now, ticks, restarts, disturbances, files, state, state_file,
                    ignore_strings, pending_hashes, last_change_time, bg, mtime, notes,
                    commits, loaded, durable, durable_at_crash, last_event, burst, owed,
                    retry >>

\* __main__ after scan_existing: observer.schedule and observer.start.
ScanDone ==
    /\ main.pc = "scan"
    /\ main.todo = {}
    /\ main' = [main EXCEPT !.pc = "watching"]
    /\ UNCHANGED << now, ticks, restarts, disturbances, files, state, state_file,
                    ignore_strings, pending_hashes, last_change_time, bg, conv, mtime,
                    notes, commits, loaded, durable, durable_at_crash, last_event, burst,
                    owed, retry >>

\* A variant of WatchInstalled: the observer started before scan_existing.
WatchBeforeScan == TRUE

\* The observer delivers events once it is started, which is after the scan.
WatchInstalled == main.pc = "watching"

(***************************************************************************)
(* Change Tracker: _register_event and process_pending                     *)
(***************************************************************************)

\* An event as the observer reports it: is_directory, and src_path as its parts
\* relative to SOURCE_ROOT (inside = FALSE: relative_to raises ValueError).
Events ==
    [ is_directory : BOOLEAN, inside : {TRUE},
      parts : {<<h>> : h \in Sessions} \cup {<<h, NameWalkthrough>> : h \in Sessions} ]
        \cup {[ is_directory |-> FALSE, inside |-> FALSE, parts |-> <<>> ]}

qualifies(ev) == ~ev.is_directory /\ ev.inside /\ Len(ev.parts) >= 2

\* on_created / on_modified. The event reports a change of a file; it may arrive
\* late, and the change need not have moved st_mtime.
RegisterEvent(ev) ==
    /\ WatchInstalled
    /\ IF qualifies(ev)
       THEN LET hash_id == ev.parts[1]
                same_burst == /\ last_event[hash_id] # 0
                              /\ now - last_event[hash_id] <= FILE_SETTLE_DELAY
            IN  /\ pending_hashes' = pending_hashes \cup {hash_id}
                /\ last_change_time' = Put(last_change_time, hash_id, now)
                /\ last_event' = [last_event EXCEPT ![hash_id] = now]
                /\ burst' = [burst EXCEPT ![hash_id] =
                                IF same_burst THEN [@ EXCEPT !.several = TRUE]
                                ELSE NoBurst]
                /\ owed' = owed \cup {hash_id}
       ELSE UNCHANGED << pending_hashes, last_change_time, last_event, burst, owed >>
    /\ UNCHANGED << now, ticks, restarts, disturbances, files, state, state_file,
                    ignore_strings, main, bg, conv, mtime, notes, commits, loaded,
                    durable, durable_at_crash, retry >>

\* A variant of is_settled that takes a pending session at once.
settled_at_once(hash_id, t) == t - Get(last_change_time, hash_id) >= 0

\* now - self.last_change_time.get(hash_id, 0) > self.processing_delay
is_settled(hash_id, t) == t - Get(last_change_time, hash_id) > FILE_SETTLE_DELAY

\* The sequences that list the members of S once each.
Orders(S) ==
    { q \in [1..Cardinality(S) -> S] : \A i, j \in 1..Cardinality(S) : q[i] = q[j] => i = j }

\* process_pending: time.sleep has returned; under the lock, the settled sessions
\* leave pending_hashes and last_change_time and make up to_process.
ProcessPendingWake ==
    /\ bg.pc = "sleep"
    /\ now >= bg.wake
    /\ LET settled == { h \in pending_hashes : is_settled(h, now) }
       IN  /\ \E order \in Orders(settled) :
                bg' = [bg EXCEPT !.pc = "batch", !.to_process = order, !.now = now]
           /\ pending_hashes' = pending_hashes \ settled
           /\ last_change_time' = Pop(last_change_time, settled)
           /\ burst' = [h \in Sessions |->
                           IF h \in settled
                           THEN [burst[h] EXCEPT !.dispatches = @ + 1,
                                                 !.quiet = now - last_event[h]]
                           ELSE burst[h]]
    /\ UNCHANGED << now, ticks, restarts, disturbances, files, state, state_file,
                    ignore_strings, main, conv, mtime, notes, commits, loaded, durable,
                    durable_at_crash, last_event, owed, retry >>

\* process_pending, the second loop: the next session of to_process is converted.
BgDispatch ==
    /\ bg.pc = "batch"
    /\ conv["bg"].stage \in {"idle", "returned"}
    /\ bg.to_process # <<>>
    /\ conv' = [conv EXCEPT !["bg"] = Called(Head(bg.to_process), bg.now, "drain")]
    /\ bg' = [bg EXCEPT !.to_process = Tail(@)]
    /\ owed' = owed \ {Head(bg.to_process)}
    /\ UNCHANGED << now, ticks, restarts, disturbances, files, state, state_file,
                    ignore_strings, pending_hashes, last_change_time, main, mtime, notes,
                    commits, loaded, durable, durable_at_crash, last_event, burst,
                    retry >>

\* process_pending, the batch is done: back to time.sleep(CHECK_INTERVAL).
BgSleep ==
    /\ bg.pc = "batch"
    /\ conv["bg"].stage \in {"idle", "returned"}
    /\ bg.to_process = <<>>
    /\ bg' = [bg EXCEPT !.pc = "sleep", !.wake = now + CHECK_INTERVAL, !.now = 0]
    /\ conv' = [conv EXCEPT !["bg"] = Idle]
    /\ UNCHANGED << now, ticks, restarts, disturbances, files, state, state_file,
                    ignore_strings, pending_hashes, last_change_time, main, mtime, notes,
                    commits, loaded, durable, durable_at_crash, last_event, burst, owed,
                    retry >>


(***************************************************************************)
(* The environment: the sessions' owner, the clock, the operating system   *)
(***************************************************************************)

ListingIndex(listing) == CHOOSE l \in 1..Len(Listings) : Listings[l] = listing

\* What the session folders hold when the daemon starts: a session with an image
\* and a session whose title is the default one.
InitFiles ==
    [h \in Sessions |-> IF h = HashA THEN ListingIndex(ListingImages)
                        ELSE ListingIndex(ListingDefaultTitle)]

\* What a write leaves in a session folder: nothing (0), or a short document.
WriteListings == {0, ListingIndex(ListingShort)}

\* The ignore list IGNORE_FILE holds while the daemon runs.
IgnoreFile == CHOOSE g \in 1..Len(IgnoreLists) : IgnoreLists[g] = IgnoreSecret

\* The owner of session h writes its files (0: removes the folder).
EnvWrite(h, l) ==
    /\ disturbances < MaxDisturbances
    /\ disturbances' = disturbances + 1
    /\ files' = [files EXCEPT ![h] = l]
    /\ mtime' = [mtime EXCEPT ![h] = now]
    /\ UNCHANGED << now, ticks, restarts, state, state_file,
                    ignore_strings, pending_hashes, last_change_time, main, bg, conv,
                    notes, commits, loaded, durable, durable_at_crash, last_event, burst,
                    owed, retry >>

Tick(d) ==
    /\ ticks < MaxTicks
    /\ ticks' = ticks + 1
    /\ now' = now + d
    /\ UNCHANGED << restarts, disturbances, files, state, state_file,
                    ignore_strings, pending_hashes, last_change_time, main, bg, conv,
                    mtime, notes, commits, loaded, durable, durable_at_crash, last_event,
                    burst, owed, retry >>

\* BrainHandler.__init__ and the start of the two threads: what a start of the
\* process sets, given the ignore list it reads.
Boot(g) ==
    /\ state' = load(state_file)
    /\ loaded' = load(state_file)
    /\ ignore_strings' = g
    /\ pending_hashes' = {}
    /\ last_change_time' = EmptyMap
    /\ main' = [pc |-> "scan", todo |-> Sessions]
    /\ bg' = [pc |-> "sleep", wake |-> now + CHECK_INTERVAL, to_process |-> <<>>, now |-> 0]
    /\ conv' = [t \in Threads |-> Idle]

\* The process is killed at any point and started again.
Restart ==
    /\ restarts < MaxRestarts
    /\ restarts' = restarts + 1
    /\ Boot(IgnoreFile)
    /\ durable_at_crash' = durable
    /\ last_event' = [h \in Sessions |-> 0]
    /\ burst' = [h \in Sessions |-> NoBurst]
    /\ owed' = {}
    /\ UNCHANGED << now, ticks, disturbances, files, state_file, mtime, notes,
                    commits, durable, retry >>

\* The state when the program has started, with the session folders as given.
Started(session_files) ==
    /\ now = StartTime
    /\ ticks = 0
    /\ restarts = 0
    /\ disturbances = 0
    /\ files = session_files
    /\ mtime = [h \in Sessions |-> StartTime \div 2]
    /\ state_file = FileMissing
    /\ state = load(FileMissing)
    /\ loaded = load(FileMissing)
    /\ pending_hashes = {}
    /\ last_change_time = EmptyMap
    /\ main = [pc |-> "scan", todo |-> Sessions]
    /\ bg = [pc |-> "sleep", wake |-> StartTime + CHECK_INTERVAL, to_process |-> <<>>,
             now |-> 0]
    /\ notes = EmptyMap
    /\ commits = EmptyMap
    /\ durable = EmptyMap
    /\ durable_at_crash = EmptyMap
    /\ last_event = [h \in Sessions |-> 0]
    /\ burst = [h \in Sessions |-> NoBurst]
    /\ owed = {}
    /\ retry = [h \in Sessions |-> 0]

Init ==
    /\ Started(InitFiles)
    /\ ignore_strings = IgnoreFile
    /\ conv = [t \in Threads |-> Idle]

\* The daemon: the two threads and the observer's callbacks, and the clock.
Daemon ==
    \/ \E h \in Sessions : ScanVisit(h)
    \/ ScanReturn
    \/ ScanDone
    \/ \E t \in Threads : ConvertBody(t)
    \/ \E t \in Threads : ConvertSaveDump(t)
    \/ \E ev \in Events : RegisterEvent(ev)
    \/ ProcessPendingWake
    \/ BgDispatch
    \/ BgSleep
    \/ \E d \in TickSteps : Tick(d)

\* One run of the daemon while the sessions' owner writes to them.
Next ==
    \/ Daemon
    \/ \E h \in Sessions, l \in WriteListings : EnvWrite(h, l)

Spec == Init /\ [][Next]_vars

\* The start of the daemon - the State Store loaded, the full scan - with the
\* process killed at any point and started again.
NextRestart ==
    \/ \E h \in Sessions : ScanVisit(h)
    \/ ScanReturn
    \/ ScanDone
    \/ ConvertBody("main")
    \/ ConvertSaveDump("main")
    \/ \E h \in Sessions, l \in WriteListings : EnvWrite(h, l)
    \/ Restart

SpecRestart == Init /\ [][NextRestart]_vars

\* One call convert_hash_folder(hash_id, timestamp) on any session folder of the
\* fixtures, under any ignore list, with a timestamp or without (0).
InitText ==
    /\ \E l \in 1..Len(Listings) : Started([h \in Sessions |-> l])
    /\ ignore_strings \in 1..Len(IgnoreLists)
    /\ \E h \in Sessions, timestamp \in {0, StartTime} :
          conv = [t \in Threads |->
                     IF t = "main"
                     THEN [ Idle EXCEPT !.stage = "body", !.hash_id = h,
                                        !.timestamp = timestamp, !.origin = "call",
                                        !.max_mtime = StartTime \div 2 ]
                     ELSE Idle]

NextText ==
    \/ ConvertBody("main")
    \/ ConvertSaveDump("main")

SpecText == InitText /\ [][NextText]_vars

(***************************************************************************)
(* The properties the specification states of the program                  *)
(***************************************************************************)

\* What convert_hash_folder computed for the note file f.
written_plan(f) ==
    PlanTable[notes[f].hash_id, notes[f].listing, notes[f].ignore, notes[f].copy]

Range(q) == { q[i] : i \in 1..Len(q) }

\* The paragraphs of the contents that _smart_extract takes for valid sentences,
\* as it would return them.
valid_paragraphs(content_list) ==
    { Flatten(clean_text(para)) :
        para \in { q \in UNION { Range(SplitParagraphsFrom(content, 1, 1)) :
                                   content \in Range(content_list) \ {<<>>} } :
                     is_valid_sentence(clean_text(q)) } }

\* The only valid paragraph the abstract of note f could be taken from is its overview.
only_paragraph_is_overview(f) ==
    valid_paragraphs(abstract_sources(Listings[notes[f].listing]))
        = {written_plan(f).overview0}

\* The strings of the ignore list that the assembled content of note f held and
\* the written file still holds.
ignored_strings_left(f) ==
    { k \in 1..Len(IgnoreLists[notes[f].ignore]) :
        /\ Contains(written_plan(f).assembled, IgnoreLists[notes[f].ignore][k])
        /\ Contains(written_plan(f).final_note, IgnoreLists[notes[f].ignore][k]) }

\* C1: a failure while converting one session never escapes per-session
\* processing: the background loop process_pending stays alive whatever step of
\* a conversion fails.
C1_LoopSurvives == bg.pc # "dead"

\* C2: events on a session that each arrive within the settle delay of the one
\* before are one burst; process_pending takes the session for conversion at most
\* once per burst, and only when at least the settle delay has passed since the
\* last event of the burst.
C2_Debounce ==
    \A h \in Sessions :
        /\ burst[h].dispatches <= 1
        /\ burst[h].dispatches > 0 => burst[h].quiet >= FILE_SETTLE_DELAY

\* A burst of several events has been drained.
C2_BurstDrained ==
    \E h \in Sessions : burst[h].several /\ burst[h].dispatches = 1

\* C3: on every path that calls convert_hash_folder, the full scan and the drain
\* of process_pending, the session's largest modification time is greater than
\* the timestamp the State Store holds for it.
C3_OnlyChangedSessions ==
    \A t \in Threads : InProgress(t) => conv[t].max_mtime > conv[t].stored

\* C4: a call of convert_hash_folder that rejects the session for its default
\* title or its short content writes no note and makes no commit, returns False
\* and, given a timestamp, records it: should_process is false for it afterwards.
C4_QualityRejectRecorded ==
    (conv["main"].stage \in {"dump", "returned"}
        /\ conv["main"].result \in {"default_title", "short"}) =>
            /\ notes = EmptyMap
            /\ commits = EmptyMap
            /\ ~conv["main"].ret
            /\ conv["main"].timestamp # 0 =>
                   ~should_process(conv["main"].hash_id, conv["main"].timestamp)

\* A call with a timestamp has rejected a session whose content is short.
C4_ShortRejected ==
    /\ conv["main"].stage = "returned"
    /\ conv["main"].result = "short"
    /\ conv["main"].timestamp # 0

\* C5: when the write of the note fails, convert_hash_folder returns False and
\* leaves the session's entry of the State Store as it was, and should_process
\* stays true for the session at the modification time of that scan, also at the
\* full scan of the next start.
C5_WriteFailureRetried ==
    /\ \A t \in Threads :
          conv[t].result = "write_failed" =>
              /\ ~conv[t].ret
              /\ Get(state, conv[t].hash_id) = conv[t].stored
    /\ \A h \in Sessions : retry[h] # 0 => should_process(h, retry[h])

\* After a failed write and a new start, the full scan converts the session again
\* at the same modification time.
C5_Rescanned ==
    /\ restarts > 0
    /\ conv["main"].stage = "body"
    /\ conv["main"].origin = "scan"
    /\ retry[conv["main"].hash_id] = conv["main"].max_mtime

\* C6: whenever the process is killed or a save fails, the mapping loaded at the
\* next start holds every entry that the completed saves had persisted, with its
\* value.
C6_NoRegression ==
    restarts > 0 =>
        \A h \in DOMAIN durable_at_crash : Get(loaded, h) = durable_at_crash[h]

\* C7: no two calls of convert_hash_folder are in progress at the same time, on
\* the main thread's full scan and the background loop.
C7_OneAtATime == ~(InProgress("main") /\ InProgress("bg"))

\* After the full scan, the background loop converts one session of a batch
\* while another waits its turn.
C7_BatchInProgress ==
    /\ main.pc = "watching"
    /\ InProgress("bg")
    /\ bg.to_process # <<>>

\* C8: no string of the ignore list that the assembled content held occurs in a
\* note file that was written.
C8_Redaction == \A f \in DOMAIN notes : ignored_strings_left(f) = {}

C10_NoChangeLost == owed # {} => bg.pc # "dead"

=============================================================================
